---------------------------- MODULE Spec2Model ----------------------------
(***************************************************************************)
(* SentinelSlice: the hybrid retrieval (ElasticService.hybrid_search, an   *)
(* RRF retriever request to the document store) and the three-agent        *)
(* pipeline (AgentService.analyze_and_remediate) behind POST /api/analyze. *)
(*                                                                         *)
(* Two specifications share the variables:                                 *)
(*   FusionSpec  one hybrid_search call on a store whose slices and        *)
(*               rankings are drawn from bounded sets;                     *)
(*   Spec        one /api/analyze request through the pipeline, with the   *)
(*               answers, failures and durations drawn from bounded sets;  *)
(*   ConcSpec    two /api/analyze requests on the one event loop,          *)
(*               interleaved at the two awaits of analyze_and_remediate.   *)
(***************************************************************************)
EXTENDS Integers, Sequences, FiniteSets, TLC

(***************************************************************************)
(* Bounds of the model.                                                    *)
(***************************************************************************)
MaxTopK == 2
MaxList == 4
MaxDur == 2

(***************************************************************************)
(* Program constants.                                                      *)
(***************************************************************************)
RankConstant == 60
WindowFactor == 3
AnalysisMaxTokens == 300
ActionMaxTokens == 800
TopKMin == 1
TopKMax == 10

Ids == {"A", "B", "C", "D"}
Domains == {"x", "y"}
NoDomain == ""
Symptoms == {"s1", "s2"}
Runs == {"r1", "r2"}

Min(a, b) == IF a < b THEN a ELSE b

(***************************************************************************)
(* Scores are exact rationals n/d; the store computes them in floating     *)
(* point, where the sums of this model's ranks stay distinct exactly when  *)
(* the rationals are.                                                      *)
(***************************************************************************)
Rat(n, d) == [n |-> n, d |-> d]
RatAdd(a, b) == Rat(a.n * b.d + b.n * a.d, a.d * b.d)
RatLess(a, b) == a.n * b.d < b.n * a.d
RatEq(a, b) == a.n * b.d = b.n * a.d

(* round(x, 2) of a score, in hundredths *)
Round2(a) == (200 * a.n + a.d) \div (2 * a.d)

(***************************************************************************)
(* Sequences without repetition over S, of length at most n.               *)
(***************************************************************************)
IsInjective(s) == \A i, j \in DOMAIN s : i # j => s[i] # s[j]
Rankings(S, n) ==
    UNION { { s \in [1..k -> S] : IsInjective(s) } : k \in 0..Min(n, Cardinality(S)) }
SeqRange(s) == { s[i] : i \in DOMAIN s }
PosIn(s, x) == IF x \in SeqRange(s) THEN CHOOSE i \in DOMAIN s : s[i] = x ELSE 0

VARIABLES
    store,      \* the index: slice identifier -> _source document
    lexical,    \* query text -> the store's unfiltered match ranking
    semantic,   \* query text -> the store's unfiltered semantic ranking
    fq,         \* FusionSpec: arguments of the hybrid_search call
    fres,       \* FusionSpec: its outcome
    pc,         \* per request: position in analyze / analyze_and_remediate
    req,        \* per request: the AnalyzeRequest
    timeline,   \* per request: local `timeline`
    hits,       \* per request: local `hits`
    context,    \* per request: local `context`
    matches,    \* per request: local `matches`
    pattern,    \* per request: local `pattern`
    times,      \* per request: locals retrieval_time, analysis_time, action_time
    calls,      \* per request: the completion calls issued, in order
    answers,    \* per request: message.content of the answers received
    raised,     \* per request: the exception analyze_and_remediate raised
    response    \* per request: what the HTTP handler answered

vars == <<store, lexical, semantic, fq, fres, pc, req, timeline, hits,
          context, matches, pattern, times, calls, answers, raised, response>>
runVars == <<pc, req, timeline, hits, context, matches, pattern, times, calls,
             answers, raised, response>>
fusionVars == <<fq, fres>>
indexVars == <<store, lexical, semantic>>

(***************************************************************************)
(* dict.get(key, default)                                                  *)
(***************************************************************************)
Get(d, k, default) == IF k \in DOMAIN d THEN d[k] ELSE default

(***************************************************************************)
(* hybrid_search: the request body and what the store answers to it.       *)
(***************************************************************************)
(* filters = [] ; if domain: filters.append({"term": {"domain": domain}}) *)
Filters(domain) == IF domain # NoDomain THEN {domain} ELSE {}

PassesFilter(st, id, filters) == \A f \in filters : st[id].domain = f

(* {"standard": {"query": lexical_query}}: match on state_summary, with the
   term filter in bool.filter when filters is non-empty *)
LexicalRetriever(st, lex, filters) ==
    SelectSeq(lex, LAMBDA id : PassesFilter(st, id, filters))

(* {"semantic": {...}} with semantic["filter"] = filters when non-empty *)
SemanticRetrieverUnfiltered(st, sem, filters) == sem
SemanticRetriever(st, sem, filters) ==
    SelectSeq(sem, LAMBDA id : PassesFilter(st, id, filters))

(* "rank_window_size": top_k * 3 *)
RankWindowSize(top_k) == top_k * WindowFactor
Window(list, top_k) == SubSeq(list, 1, Min(Len(list), RankWindowSize(top_k)))

(* one retriever's contribution to a document at 1-based rank r (0: absent) *)
RRFTermZeroBased(r) == IF r = 0 THEN Rat(0, 1) ELSE Rat(1, RankConstant + r - 1)
RRFTerm(r) == IF r = 0 THEN Rat(0, 1) ELSE Rat(1, RankConstant + r)

(* "retrievers": [lexical, semantic]: the sum over the two lists *)
RRFScore(lexC, semC, id) ==
    RatAdd(RRFTerm(PosIn(lexC, id)), RRFTerm(PosIn(semC, id)))

(* the orders the rrf retriever may return the union in: by fused score,
   highest first; the request names no order among equal scores, so every
   order of them is a possible answer *)
FusedOrders(lexC, semC) ==
    LET U == SeqRange(lexC) \cup SeqRange(semC)
    IN  { p \in [1..Cardinality(U) -> U] :
            /\ IsInjective(p)
            /\ \A i, j \in DOMAIN p :
                 i < j => ~RatLess(RRFScore(lexC, semC, p[i]), RRFScore(lexC, semC, p[j])) }

Hit(st, lexC, semC, id) ==
    [_id |-> id, _score |-> RRFScore(lexC, semC, id), _source |-> st[id]]

(* "size": top_k *)
SizeWindow(order, top_k) == SubSeq(order, 1, Min(Len(order), RankWindowSize(top_k)))
Size(order, top_k) == SubSeq(order, 1, Min(Len(order), top_k))

(* the possible values of hybrid_search(...)["hits"]["hits"] *)
HybridSearch(st, lex, sem, domain, top_k) ==
    LET filters == Filters(domain)
        lexC == Window(LexicalRetriever(st, lex, filters), top_k)
        semC == Window(SemanticRetriever(st, sem, filters), top_k)
    IN  { [i \in DOMAIN Size(p, top_k) |-> Hit(st, lexC, semC, p[i])] :
            p \in FusedOrders(lexC, semC) }

(* what es.search raises when the request fails *)
StoreErrors == { [cls |-> "ConnectionError", msg |-> "store unreachable"],
                 [cls |-> "BadRequestError", msg |-> "malformed query"] }
FailingQueries == {"lexical", "semantic"}

(***************************************************************************)
(* The stored slices.                                                      *)
(***************************************************************************)
Source(id, dom, md) ==
    [state_summary |-> id, domain |-> dom, resolution |-> id, metadata |-> md]

(***************************************************************************)
(* FusionSpec                                                              *)
(***************************************************************************)
FusionQueries == {"s1"}
FusionDomainMaps ==
    { [A |-> "x", B |-> "x", C |-> "y", D |-> "y"],
      [A |-> "y", B |-> "x", C |-> "x", D |-> "x"],
      [A |-> "x", B |-> "x", C |-> "x", D |-> "x"] }
FusionStores ==
    { [id \in Ids |-> Source(id, dm[id], [severity |-> "high"])] : dm \in FusionDomainMaps }

IdleRuns ==
    /\ pc = [r \in Runs |-> "idle"]
    /\ req = [r \in Runs |-> <<>>]
    /\ timeline = [r \in Runs |-> <<>>]
    /\ hits = [r \in Runs |-> <<>>]
    /\ context = [r \in Runs |-> <<>>]
    /\ matches = [r \in Runs |-> <<>>]
    /\ pattern = [r \in Runs |-> <<>>]
    /\ times = [r \in Runs |-> <<>>]
    /\ calls = [r \in Runs |-> <<>>]
    /\ answers = [r \in Runs |-> <<>>]
    /\ raised = [r \in Runs |-> <<>>]
    /\ response = [r \in Runs |-> [status |-> "none"]]

FusionInit ==
    /\ store \in FusionStores
    /\ \E q \in FusionQueries, lex \in Rankings(Ids, MaxList), sem \in Rankings(Ids, MaxList),
          d \in Domains \cup {NoDomain}, k \in 1..MaxTopK :
         /\ lexical = [s \in Symptoms |-> IF s = q THEN lex ELSE <<>>]
         /\ semantic = [s \in Symptoms |-> IF s = q THEN sem ELSE <<>>]
         /\ fq = [query_text |-> q, domain |-> d, top_k |-> k]
    /\ fres = [status |-> "pending"]
    /\ IdleRuns

Search ==
    /\ fres.status = "pending"
    /\ \E h \in HybridSearch(store, lexical[fq.query_text], semantic[fq.query_text],
                             fq.domain, fq.top_k) :
         fres' = [status |-> "returned", hits |-> h]
    /\ UNCHANGED <<indexVars, fq, runVars>>

SearchFails ==
    /\ fres.status = "pending"
    /\ \E which \in FailingQueries, e \in StoreErrors :
         fres' = [status |-> "raised", exc |-> e, failed |-> which]
    /\ UNCHANGED <<indexVars, fq, runVars>>

FusionNext == Search \/ SearchFails

FusionSpec == FusionInit /\ [][FusionNext]_vars


(***************************************************************************)
(* Text: a sequence of characters.  str.strip() and str.splitlines().      *)
(***************************************************************************)
IsSpace(c) == c \in {" ", "\n"}

RECURSIVE LStrip(_)
LStrip(s) == IF s # <<>> /\ IsSpace(Head(s)) THEN LStrip(Tail(s)) ELSE s

RECURSIVE RStrip(_)
RStrip(s) ==
    IF s # <<>> /\ IsSpace(s[Len(s)]) THEN RStrip(SubSeq(s, 1, Len(s) - 1)) ELSE s

Strip(s) == RStrip(LStrip(s))

(* len(text.splitlines()) *)
LineCount(s) ==
    Cardinality({ i \in DOMAIN s : s[i] = "\n" })
      + (IF s # <<>> /\ s[Len(s)] # "\n" THEN 1 ELSE 0)

(***************************************************************************)
(* analyze_and_remediate: the pieces it builds.                            *)
(***************************************************************************)
Durations == 0..MaxDur

RetrievalRecord(d, h) ==
    [agent |-> "Retrieval Agent", duration_s |-> d,
     detail |-> [found |-> Len(h), scores |-> [i \in DOMAIN h |-> Round2(h[i]._score)]]]

AnalysisRecord(d) ==
    [agent |-> "Analysis Agent", duration_s |-> d,
     detail |-> "Root cause pattern synthesized from historical matches."]

ActionRecord(d, runbook) ==
    [agent |-> "Action Agent", duration_s |-> d,
     detail |-> [generated_lines |-> LineCount(runbook)]]

(* if not hits *)
NoHitsNever(h) == FALSE
NoHits(h) == Len(h) = 0

(* the dash of the source's message is written -- here *)
NoMatchRunbook ==
    "No historical matches found. This may be a novel incident -- escalate to on-call engineer."
NoMatchPattern == "No pattern detected."

NoMatchResult(tl) ==
    [runbook |-> NoMatchRunbook, matches |-> <<>>, timeline |-> tl,
     pattern |-> NoMatchPattern]

(* one element of context_parts *)
ContextPart(i, h) ==
    LET src == h._source
        metadata == Get(src, "metadata", <<>>)
    IN  [match |-> i,
         incident |-> Get(metadata, "incident_id", "UNKNOWN"),
         similarity |-> Round2(h._score),
         state |-> Get(src, "state_summary", ""),
         resolution |-> Get(src, "resolution", "")]

(* one element of matches *)
Match(i, h) ==
    LET src == h._source
        metadata == Get(src, "metadata", <<>>)
    IN  [rank |-> i,
         score |-> Round2(h._score),
         incident_id |-> Get(metadata, "incident_id", h._id),
         state_summary |-> Get(src, "state_summary", ""),
         resolution |-> Get(src, "resolution", ""),
         domain |-> Get(src, "domain", ""),
         severity |-> Get(metadata, "severity", "unknown")]

(* "\n\n".join(context_parts): the parts in order *)
Context(h) == [i \in DOMAIN h |-> ContextPart(i, h[i])]
Matches(h) == [i \in DOMAIN h |-> Match(i, h[i])]

AnalysisPrompt(symptoms, ctx) ==
    [role |-> "analyst", symptoms |-> symptoms, context |-> ctx]

ActionPromptNoPattern(symptoms, pat, ctx) ==
    [role |-> "runbook", symptoms |-> symptoms, pattern |-> <<>>, context |-> ctx]
ActionPrompt(symptoms, pat, ctx) ==
    [role |-> "runbook", symptoms |-> symptoms, pattern |-> pat, context |-> ctx]

(* self.ai.chat.completions.create(model=..., messages=[...], max_tokens=...) *)
CompletionCall(prompt, max_tokens) ==
    [model |-> "gpt-4o", content |-> prompt, max_tokens |-> max_tokens]

(* total_time = round(retrieval_time + analysis_time + action_time, 2) *)
TotalTimeTwoStages(t) == t[1] + t[2]
TotalTime(t) == t[1] + t[2] + t[3]

DoneResult(runbook, pat, m, tl, total, domain) ==
    [runbook |-> runbook, pattern |-> pat, matches |-> m, timeline |-> tl,
     total_time_s |-> total, domain |-> domain]

(* what the completion client raises, and the AttributeError of
   `.content.strip()` when the answer carries no content *)
ClientErrors == { [cls |-> "APIConnectionError", msg |-> "connection error"],
                  [cls |-> "RateLimitError", msg |-> "rate limited"] }
NoContentError == [cls |-> "AttributeError", msg |-> "no attribute strip"]
CompletionFailures == ClientErrors \cup {NoContentError}

(* message.content of an answer *)
Contents == { <<"p">>, <<" ", "p", "\n", "q", "\n">> }

(***************************************************************************)
(* POST /api/analyze: the handler of main.py around the pipeline.          *)
(***************************************************************************)
(* return ApiResponse(success=True, data=result) *)
Success(result) == [status_code |-> 200, success |-> TRUE, data |-> result]
(* raise HTTPException(status_code=500, detail=str(e)) *)
HttpError(e) == [status_code |-> 500, detail |-> e.msg]

(* AnalyzeRequest: symptoms: str, domain: str, top_k: 1..10 *)
RequestDomains == Domains \cup {NoDomain, "z"}
Requests ==
    [symptoms : Symptoms, domain : RequestDomains, top_k : 1..MaxTopK]

(* the request bodies that reach the endpoint: also an empty symptoms text
   and a top_k below, at and above the limits of the Field *)
EmptyText == ""
RawTopKs == (0..MaxTopK) \cup {TopKMax, TopKMax + 1}
RawRequests ==
    [symptoms : Symptoms \cup {EmptyText}, domain : RequestDomains, top_k : RawTopKs]

(* AnalyzeRequest: symptoms and domain are plain str (any string, the empty
   one included), top_k is Field(ge=1, le=10) *)
Validates(rq) == rq.top_k >= TopKMin /\ rq.top_k <= TopKMax
AcceptedRequests == { rq \in RawRequests : Validates(rq) }

(* the answer of the framework to a body the model refuses *)
ValidationResponse == [status_code |-> 422, detail |-> "validation error"]

(* the rankings of the store for a query text; a text the index ranks
   nothing for (the empty one) has no candidates *)
RankingOf(index, q) == IF q \in DOMAIN index THEN index[q] ELSE <<>>

Raise(r, e) ==
    /\ raised' = [raised EXCEPT ![r] = e]
    /\ response' = [response EXCEPT ![r] = HttpError(e)]
    /\ pc' = [pc EXCEPT ![r] = "raised"]

(* the body does not validate: the handler is never entered *)
AnalyzeRejected(r, rq) ==
    /\ pc[r] = "idle"
    /\ ~Validates(rq)
    /\ req' = [req EXCEPT ![r] = rq]
    /\ response' = [response EXCEPT ![r] = ValidationResponse]
    /\ pc' = [pc EXCEPT ![r] = "rejected"]
    /\ UNCHANGED <<indexVars, fusionVars, timeline, hits, context, matches, pattern,
                   times, calls, answers, raised>>

(* the request arrives and hybrid_search raises *)
AnalyzeRetrievalFails(r, rq, e) ==
    /\ pc[r] = "idle"
    /\ Validates(rq)
    /\ req' = [req EXCEPT ![r] = rq]
    /\ Raise(r, e)
    /\ UNCHANGED <<indexVars, fusionVars, timeline, hits, context, matches, pattern,
                   times, calls, answers>>

(* the request arrives, hybrid_search returns no hit: lines 32-58 *)
AnalyzeNoMatch(r, rq, d) ==
    /\ pc[r] = "idle"
    /\ Validates(rq)
    /\ \E h \in HybridSearch(store, RankingOf(lexical, rq.symptoms),
                             RankingOf(semantic, rq.symptoms), rq.domain, rq.top_k) :
         /\ NoHits(h)
         /\ req' = [req EXCEPT ![r] = rq]
         /\ hits' = [hits EXCEPT ![r] = h]
         /\ times' = [times EXCEPT ![r] = <<d>>]
         /\ timeline' = [timeline EXCEPT ![r] = <<RetrievalRecord(d, h)>>]
         /\ response' = [response EXCEPT ![r] =
                           Success(NoMatchResult(<<RetrievalRecord(d, h)>>))]
         /\ pc' = [pc EXCEPT ![r] = "returned"]
    /\ UNCHANGED <<indexVars, fusionVars, context, matches, pattern, calls, answers,
                   raised>>

(* the request arrives, hybrid_search returns hits, the analysis call is
   issued: lines 32-104 up to the await *)
AnalyzeRetrieved(r, rq, d) ==
    /\ pc[r] = "idle"
    /\ Validates(rq)
    /\ \E h \in HybridSearch(store, RankingOf(lexical, rq.symptoms),
                             RankingOf(semantic, rq.symptoms), rq.domain, rq.top_k) :
         /\ ~NoHits(h)
         /\ req' = [req EXCEPT ![r] = rq]
         /\ hits' = [hits EXCEPT ![r] = h]
         /\ times' = [times EXCEPT ![r] = <<d>>]
         /\ timeline' = [timeline EXCEPT ![r] = <<RetrievalRecord(d, h)>>]
         /\ context' = [context EXCEPT ![r] = Context(h)]
         /\ matches' = [matches EXCEPT ![r] = Matches(h)]
         /\ calls' = [calls EXCEPT ![r] =
                        <<CompletionCall(AnalysisPrompt(rq.symptoms, Context(h)),
                                         AnalysisMaxTokens)>>]
         /\ pc' = [pc EXCEPT ![r] = "analysis"]
    /\ UNCHANGED <<indexVars, fusionVars, pattern, answers, raised, response>>

(* as AnalysisReturns, with the pattern kept on the shared service object *)
AnalysisReturnsSharedPattern(r, content, d) ==
    /\ pc[r] = "analysis"
    /\ answers' = [answers EXCEPT ![r] = Append(@, content)]
    /\ pattern' = [q \in Runs |-> Strip(content)]
    /\ times' = [times EXCEPT ![r] = Append(@, d)]
    /\ timeline' = [timeline EXCEPT ![r] = Append(@, AnalysisRecord(d))]
    /\ calls' = [calls EXCEPT ![r] =
                   Append(@, CompletionCall(
                                ActionPrompt(req[r].symptoms, Strip(content), context[r]),
                                ActionMaxTokens))]
    /\ pc' = [pc EXCEPT ![r] = "action"]
    /\ UNCHANGED <<indexVars, fusionVars, req, hits, context, matches, raised, response>>

(* the analysis call answers, the action call is issued: lines 105-141 *)
AnalysisReturns(r, content, d) ==
    /\ pc[r] = "analysis"
    /\ answers' = [answers EXCEPT ![r] = Append(@, content)]
    /\ pattern' = [pattern EXCEPT ![r] = Strip(content)]
    /\ times' = [times EXCEPT ![r] = Append(@, d)]
    /\ timeline' = [timeline EXCEPT ![r] = Append(@, AnalysisRecord(d))]
    /\ calls' = [calls EXCEPT ![r] =
                   Append(@, CompletionCall(
                                ActionPrompt(req[r].symptoms, Strip(content), context[r]),
                                ActionMaxTokens))]
    /\ pc' = [pc EXCEPT ![r] = "action"]
    /\ UNCHANGED <<indexVars, fusionVars, req, hits, context, matches, raised, response>>

AnalysisFailsWithRecord(r, e) ==
    /\ pc[r] = "analysis"
    /\ Raise(r, e)
    /\ timeline' = [timeline EXCEPT ![r] = Append(@, AnalysisRecord(0))]
    /\ UNCHANGED <<indexVars, fusionVars, req, hits, context, matches,
                   pattern, times, calls, answers>>

(* the analysis call, or the read of its content, raises *)
AnalysisFails(r, e) ==
    /\ pc[r] = "analysis"
    /\ Raise(r, e)
    /\ UNCHANGED <<indexVars, fusionVars, req, timeline, hits, context, matches,
                   pattern, times, calls, answers>>

(* the action call answers, the result is returned: lines 142-161 *)
ActionReturns(r, content, d) ==
    LET runbook == Strip(content)
        tl == Append(timeline[r], ActionRecord(d, runbook))
        t == Append(times[r], d)
    IN  /\ pc[r] = "action"
        /\ answers' = [answers EXCEPT ![r] = Append(@, content)]
        /\ times' = [times EXCEPT ![r] = t]
        /\ timeline' = [timeline EXCEPT ![r] = tl]
        /\ response' = [response EXCEPT ![r] =
                          Success(DoneResult(runbook, pattern[r], matches[r], tl,
                                             TotalTime(t), req[r].domain))]
        /\ pc' = [pc EXCEPT ![r] = "returned"]
        /\ UNCHANGED <<indexVars, fusionVars, req, hits, context, matches, pattern,
                       calls, raised>>

(* the action call, or the read of its content, raises *)
ActionFails(r, e) ==
    /\ pc[r] = "action"
    /\ Raise(r, e)
    /\ UNCHANGED <<indexVars, fusionVars, req, timeline, hits, context, matches,
                   pattern, times, calls, answers>>

(***************************************************************************)
(* Spec: one request through the pipeline.                                 *)
(***************************************************************************)
PipelineStore ==
    [A |-> Source("A", "x", [severity |-> "critical", incident_id |-> "INC-1"]),
     B |-> Source("B", "x", [severity |-> "high"]),
     C |-> Source("C", "y", [incident_id |-> "INC-3"]),
     D |-> Source("D", "y", [severity |-> "low", incident_id |-> "INC-4"])]

PipelineLexical == { [s1 |-> <<"A", "B", "C">>, s2 |-> <<"C", "D">>],
                     [s1 |-> <<"D", "C", "B", "A">>, s2 |-> <<>>] }
PipelineSemantic == { [s1 |-> <<"B", "A", "D">>, s2 |-> <<>>] }

Init ==
    /\ store = PipelineStore
    /\ lexical \in PipelineLexical
    /\ semantic \in PipelineSemantic
    /\ fq = [query_text |-> "s1", domain |-> NoDomain, top_k |-> 1]
    /\ fres = [status |-> "pending"]
    /\ IdleRuns

SingleRun == {"r1"}

Next ==
    \E r \in SingleRun :
      \/ \E rq \in RawRequests : AnalyzeRejected(r, rq)
      \/ \E rq \in RawRequests, e \in StoreErrors : AnalyzeRetrievalFails(r, rq, e)
      \/ \E rq \in RawRequests, d \in Durations : AnalyzeNoMatch(r, rq, d)
      \/ \E rq \in RawRequests, d \in Durations : AnalyzeRetrieved(r, rq, d)
      \/ \E c \in Contents, d \in Durations : AnalysisReturns(r, c, d)
      \/ \E e \in CompletionFailures : AnalysisFails(r, e)
      \/ \E c \in Contents, d \in Durations : ActionReturns(r, c, d)
      \/ \E e \in CompletionFailures : ActionFails(r, e)

Spec == Init /\ [][Next]_vars

(***************************************************************************)
(* ConcSpec: two requests in flight.  A coroutine runs without             *)
(* interruption between awaits, so the steps of Spec are the atomic steps  *)
(* here too.  Durations and failure causes are held to one value each.     *)
(***************************************************************************)
ConcDurations == {0}
ConcStoreErrors == { e \in StoreErrors : e.cls = "ConnectionError" }
ConcFailures == { e \in CompletionFailures : e.cls = "RateLimitError" }

ConcNext ==
    \E r \in Runs :
      \/ \E rq \in Requests, e \in ConcStoreErrors : AnalyzeRetrievalFails(r, rq, e)
      \/ \E rq \in Requests, d \in ConcDurations : AnalyzeNoMatch(r, rq, d)
      \/ \E rq \in Requests, d \in ConcDurations : AnalyzeRetrieved(r, rq, d)
      \/ \E c \in Contents, d \in ConcDurations : AnalysisReturns(r, c, d)
      \/ \E e \in ConcFailures : AnalysisFails(r, e)
      \/ \E c \in Contents, d \in ConcDurations : ActionReturns(r, c, d)
      \/ \E e \in ConcFailures : ActionFails(r, e)

ConcSpec == Init /\ [][ConcNext]_vars


(***************************************************************************)
(* Claims about the pipeline, checked under Spec.                          *)
(***************************************************************************)
RetrievalReturned(r) == Len(timeline[r]) >= 1
Returned(r) == pc[r] = "returned"

(* the stage a raised run failed in: no call issued yet, one, or two *)
FailedStage(r) ==
    CASE Len(calls[r]) = 0 -> "retrieval"
      [] Len(calls[r]) = 1 -> "analysis"
      [] OTHER -> "action"

(* C1: a run whose hybrid retrieval returned no hit has issued no
   completion call and has returned the fixed escalation runbook, the
   "No pattern detected." pattern, no matches and a timeline of exactly
   the retrieval record. *)
C1_NoMatchShortCircuit ==
    \A r \in Runs :
      (RetrievalReturned(r) /\ hits[r] = <<>>) =>
        /\ calls[r] = <<>>
        /\ answers[r] = <<>>
        /\ Returned(r)
        /\ response[r].success = TRUE
        /\ response[r].data.runbook =
             "No historical matches found. This may be a novel incident -- escalate to on-call engineer."
        /\ response[r].data.pattern = "No pattern detected."
        /\ response[r].data.matches = <<>>
        /\ Len(response[r].data.timeline) = 1
        /\ response[r].data.timeline[1].agent = "Retrieval Agent"
        /\ response[r].data.timeline[1].detail.found = 0

C1_Witness ==
    \E r \in Runs :
      /\ Returned(r) /\ RetrievalReturned(r) /\ hits[r] = <<>>
      /\ req[r].domain = "z"

(* C2: every result the pipeline returns, on the DONE path and on the
   NO_MATCH path, has exactly the fields runbook, pattern, matches,
   timeline, total_time_s, domain. *)
ResultFields == {"runbook", "pattern", "matches", "timeline", "total_time_s", "domain"}
C2_ExactFieldSet ==
    \A r \in Runs : Returned(r) => DOMAIN response[r].data = ResultFields

(* C3: when the analysis completion call fails, the run raises a
   CompletionError tagged stage = "analysis" and the action call is never
   issued. *)
C3_AnalysisFailureTagged ==
    \A r \in Runs :
      (pc[r] = "raised" /\ FailedStage(r) = "analysis" /\ raised[r] \in ClientErrors) =>
        /\ raised[r].cls = "CompletionError"
        /\ Get(raised[r], "stage", "untagged") = "analysis"
        /\ \A i \in DOMAIN calls[r] : calls[r][i].max_tokens # ActionMaxTokens

(* C4: a failure in any stage aborts the run with an error that
   identifies the failing stage, and no result object reaches the caller:
   the handler never answers success for such a run. *)
C4_FailureIdentifiesStage ==
    \A r \in Runs :
      pc[r] = "raised" =>
        /\ \/ Get(raised[r], "stage", "untagged") = FailedStage(r)
           \/ Get(response[r], "stage", "untagged") = FailedStage(r)
        /\ "data" \notin DOMAIN response[r]
        /\ Get(response[r], "success", FALSE) = FALSE

(* C5: the stages run in the order retrieval, analysis, action: the
   analysis call is issued only after retrieval returned at least one
   hit, the action call only after the analysis call returned, and the
   action prompt carries the stripped text of this run's analysis answer
   and the context block of the analysis prompt. *)
C5_StagesInOrder ==
    \A r \in Runs :
      /\ Len(calls[r]) <= 2
      /\ Len(calls[r]) >= 1 =>
           /\ calls[r][1].max_tokens = 300
           /\ calls[r][1].content.role = "analyst"
           /\ RetrievalReturned(r)
           /\ timeline[r][1].agent = "Retrieval Agent"
           /\ Len(hits[r]) >= 1
           /\ Len(calls[r][1].content.context) = Len(hits[r])
      /\ Len(calls[r]) >= 2 =>
           /\ calls[r][2].max_tokens = 800
           /\ calls[r][2].content.role = "runbook"
           /\ Len(answers[r]) >= 1
           /\ Len(timeline[r]) >= 2
           /\ timeline[r][2].agent = "Analysis Agent"
           /\ calls[r][2].content.pattern = Strip(answers[r][1])
           /\ calls[r][2].content.context = calls[r][1].content.context
           /\ calls[r][2].content.symptoms = req[r].symptoms
      /\ Len(answers[r]) <= Len(calls[r])

C5_Witness ==
    \E r \in Runs :
      /\ Len(calls[r]) = 2
      /\ Len(hits[r]) = 2
      /\ calls[r][2].content.pattern = <<"p", "\n", "q">>
      /\ answers[r][1] # calls[r][2].content.pattern


(***************************************************************************)
(* Claims about hybrid_search, checked under FusionSpec.                   *)
(***************************************************************************)
SearchReturned == fres.status = "returned"

(* the two candidate lists of the call: the filtered rankings, cut to the
   rank window *)
LexCandidates ==
    Window(LexicalRetriever(store, lexical[fq.query_text], Filters(fq.domain)), fq.top_k)
SemCandidates ==
    Window(SemanticRetriever(store, semantic[fq.query_text], Filters(fq.domain)), fq.top_k)
CandidateIds == SeqRange(LexCandidates) \cup SeqRange(SemCandidates)
Rank1(id) == PosIn(LexCandidates, id)
Rank2(id) == PosIn(SemCandidates, id)

(* C6: the fused score of an identifier at lexical rank r1 and semantic
   rank r2 (1-based, within a window of top_k*3 per list) is
   1/(60+r1) + 1/(60+r2); an identifier absent from one list has only the
   term of the list it is in. *)
C6_FusedScore ==
    SearchReturned =>
      \A i \in DOMAIN fres.hits :
        LET h == fres.hits[i]
            r1 == Rank1(h._id)
            r2 == Rank2(h._id)
            n == h._score.n
            d == h._score.d
        IN  /\ r1 <= 3 * fq.top_k /\ r2 <= 3 * fq.top_k
            /\ r1 > 0 \/ r2 > 0
            /\ (r1 > 0 /\ r2 > 0) => n * (60 + r1) * (60 + r2) = d * ((60 + r1) + (60 + r2))
            /\ (r1 > 0 /\ r2 = 0) => n * (60 + r1) = d
            /\ (r1 = 0 /\ r2 > 0) => n * (60 + r2) = d

C6_Witness ==
    /\ SearchReturned
    /\ \E i, j \in DOMAIN fres.hits :
         /\ Rank1(fres.hits[i]._id) > 0 /\ Rank2(fres.hits[i]._id) > 1
         /\ Rank1(fres.hits[j]._id) = 0 /\ Rank2(fres.hits[j]._id) > 0

(* C7: the output has length min(top_k, number of identifiers in the
   union of the two candidate lists) and is ordered by fused score,
   highest first. *)
C7_LengthAndOrder ==
    SearchReturned =>
      /\ Len(fres.hits) = Min(fq.top_k, Cardinality(CandidateIds))
      /\ \A i, j \in DOMAIN fres.hits :
           i < j => fres.hits[i]._score.n * fres.hits[j]._score.d
                      >= fres.hits[j]._score.n * fres.hits[i]._score.d
      /\ \A i \in DOMAIN fres.hits :
           \A id \in CandidateIds \ { fres.hits[k]._id : k \in DOMAIN fres.hits } :
             ~RatLess(fres.hits[i]._score, RRFScore(LexCandidates, SemCandidates, id))
      /\ \A i, j \in DOMAIN fres.hits : i # j => fres.hits[i]._id # fres.hits[j]._id

C7_Witness ==
    /\ SearchReturned
    /\ Cardinality(CandidateIds) > fq.top_k
    /\ Len(fres.hits) = 2
    /\ RatLess(fres.hits[2]._score, fres.hits[1]._score)

(* C8: identifiers of equal fused score are ordered by lexical rank, then
   semantic rank, then identifier; with lexical [A,B,C], semantic [B,A,D]
   and top_k = 2 the result is [A, B]. *)
IdOrder == <<"A", "B", "C", "D">>
(* an identifier absent from a list ranks after every identifier in it *)
RankKey(r) == IF r = 0 THEN Len(IdOrder) + 1 ELSE r
TieBefore(a, b) ==
    \/ RankKey(Rank1(a)) < RankKey(Rank1(b))
    \/ /\ RankKey(Rank1(a)) = RankKey(Rank1(b))
       /\ \/ RankKey(Rank2(a)) < RankKey(Rank2(b))
          \/ /\ RankKey(Rank2(a)) = RankKey(Rank2(b))
             /\ PosIn(IdOrder, a) < PosIn(IdOrder, b)
C8_TieBreak ==
    SearchReturned =>
      /\ \A i, j \in DOMAIN fres.hits :
           (i < j /\ RatEq(fres.hits[i]._score, fres.hits[j]._score)) =>
             TieBefore(fres.hits[i]._id, fres.hits[j]._id)
      /\ ( /\ LexCandidates = <<"A", "B", "C">>
           /\ SemCandidates = <<"B", "A", "D">>
           /\ fq.top_k = 2 ) =>
             [i \in DOMAIN fres.hits |-> fres.hits[i]._id] = <<"A", "B">>

(* C9: a given domain filter is applied to the lexical and to the
   semantic query before ranking: no slice of another domain is in the
   output, and the ranks the scores come from are ranks among the slices
   of that domain. *)
C9_DomainFilter ==
    (SearchReturned /\ fq.domain # "") =>
      /\ \A i \in DOMAIN fres.hits :
           /\ store[fres.hits[i]._id].domain = fq.domain
           /\ fres.hits[i]._source.domain = fq.domain
      /\ \A id \in CandidateIds : store[id].domain = fq.domain

C9_Witness ==
    /\ SearchReturned /\ fq.domain # ""
    /\ Len(fres.hits) >= 1
    /\ Len(lexical[fq.query_text]) >= 1 /\ Len(semantic[fq.query_text]) >= 1
    /\ store[lexical[fq.query_text][1]].domain # fq.domain
    /\ store[semantic[fq.query_text][1]].domain # fq.domain

(* C10: when the lexical or the semantic query fails, hybrid_search fails
   with a RetrievalError that carries the underlying cause, and returns no
   ranking. *)
C10_RetrievalError ==
    fres.status = "raised" =>
      /\ fres.exc.cls = "RetrievalError"
      /\ Get(fres.exc, "cause", <<>>) \in StoreErrors
      /\ "hits" \notin DOMAIN fres


(***************************************************************************)
(* Claims about request validation, timing, the timeline, concurrent runs  *)
(* and the context block.                                                  *)
(***************************************************************************)
(* C11: a request with top_k outside [1,10], with empty symptoms or with
   an empty domain is rejected, and neither a retrieval query nor a
   completion call is issued for it. *)
C11_InvalidRequestRejected ==
    \A r \in Runs :
      ( /\ pc[r] # "idle"
        /\ \/ req[r].top_k < 1 \/ req[r].top_k > 10
           \/ req[r].symptoms = ""
           \/ req[r].domain = "" ) =>
        /\ pc[r] = "rejected"
        /\ response[r].status_code = 422
        /\ timeline[r] = <<>>
        /\ calls[r] = <<>>

(* C12: in the result of a run that reaches DONE, total_time_s is the sum
   of the duration_s of the retrieval, analysis and action records of that
   result, the durations being non-negative hundredths of a second. *)
ReachedDone(r) == Returned(r) /\ hits[r] # <<>>
C12_TotalIsSumOfStages ==
    \A r \in Runs :
      ReachedDone(r) =>
        LET data == response[r].data
        IN  /\ Len(data.timeline) = 3
            /\ \A i \in 1..3 : data.timeline[i].duration_s \in Nat
            /\ data.total_time_s =
                 data.timeline[1].duration_s + data.timeline[2].duration_s
                   + data.timeline[3].duration_s

C12_Witness ==
    \E r \in Runs :
      /\ ReachedDone(r)
      /\ response[r].data.timeline[1].duration_s = 2
      /\ response[r].data.timeline[2].duration_s = 1
      /\ response[r].data.timeline[3].duration_s = 2
      /\ response[r].data.total_time_s = 5

(* C13: the timeline is append-only and in execution order: it is always
   a prefix of [retrieval, analysis, action], holds one record per stage
   that has finished successfully, a record once appended is never changed
   or removed, and a run that reaches DONE returns exactly the three
   records in that order. *)
StageAgents == <<"Retrieval Agent", "Analysis Agent", "Action Agent">>

StagesFinished(r) ==
    CASE pc[r] \in {"idle", "rejected"} -> 0
      [] pc[r] = "analysis" -> 1
      [] pc[r] = "action" -> 2
      [] pc[r] = "returned" -> IF hits[r] = <<>> THEN 1 ELSE 3
      [] pc[r] = "raised" -> Len(calls[r])

TimelineInOrder ==
    \A r \in Runs :
      /\ Len(timeline[r]) = StagesFinished(r)
      /\ \A i \in DOMAIN timeline[r] :
           /\ timeline[r][i].agent = StageAgents[i]
           /\ timeline[r][i].duration_s = times[r][i]
      /\ ReachedDone(r) =>
           /\ response[r].data.timeline = timeline[r]
           /\ [i \in 1..3 |-> response[r].data.timeline[i].agent] = StageAgents
      /\ Returned(r) => response[r].data.timeline = timeline[r]

TimelineAppendOnly ==
    \A r \in Runs :
      /\ Len(timeline'[r]) \in {Len(timeline[r]), Len(timeline[r]) + 1}
      /\ \A i \in DOMAIN timeline[r] : timeline'[r][i] = timeline[r][i]

C13_TimelineAppendOnly == []TimelineInOrder /\ [][TimelineAppendOnly]_vars

C13_Witness ==
    \E r \in Runs :
      /\ ReachedDone(r)
      /\ Len(response[r].data.timeline) = 3
      /\ response[r].data.timeline[3].agent = "Action Agent"
      /\ response[r].data.timeline[3].detail.generated_lines = 2

(* C14: concurrent runs are independent: under every interleaving of two
   runs at their awaits, a step of one run changes nothing of the other
   and nothing of the store, and each run returns the timeline, matches,
   pattern and runbook that its own request, its own completion answers
   and the store determine, as it would when run alone. *)
RunState(r) ==
    <<req[r], timeline[r], hits[r], context[r], matches[r], pattern[r], times[r],
      calls[r], answers[r], raised[r], response[r]>>

(* what one run alone returns for request rq when the store answers h, the
   completion client answers ans and the stages take the durations t *)
AloneResult(rq, h, ans, t) ==
    IF h = <<>>
    THEN [runbook |-> NoMatchRunbook, matches |-> <<>>,
          timeline |-> <<RetrievalRecord(t[1], h)>>, pattern |-> NoMatchPattern]
    ELSE [runbook |-> Strip(ans[2]),
          pattern |-> Strip(ans[1]),
          matches |-> [i \in DOMAIN h |-> Match(i, h[i])],
          timeline |-> <<RetrievalRecord(t[1], h), AnalysisRecord(t[2]),
                         ActionRecord(t[3], Strip(ans[2]))>>,
          total_time_s |-> t[1] + t[2] + t[3],
          domain |-> rq.domain]

ResultsAsAlone ==
    \A r \in Runs :
      Returned(r) =>
        \E h \in HybridSearch(store, RankingOf(lexical, req[r].symptoms),
                              RankingOf(semantic, req[r].symptoms),
                              req[r].domain, req[r].top_k) :
          response[r].data = AloneResult(req[r], h, answers[r], times[r])

RunsIndependent ==
    /\ \A r \in Runs : pc'[r] = pc[r] => RunState(r)' = RunState(r)
    /\ indexVars' = indexVars

C14_ConcurrentRunsIndependent == []ResultsAsAlone /\ [][RunsIndependent]_vars

C14_Witness ==
    \E r, q \in Runs :
      /\ r # q
      /\ ReachedDone(r) /\ ReachedDone(q)
      /\ req[r] # req[q]
      /\ response[r].data.pattern # response[q].data.pattern
      /\ response[r].data.matches # response[q].data.matches
      /\ response[r].data.runbook # response[q].data.runbook

(* C15: for every retrieved hit, the incident identifier in its section
   of the context block is the metadata incident identifier when present
   and the raw slice identifier otherwise, the same identifier its entry
   of matches reports; sections and entries follow the fused order with
   1-based ranks. *)
IncidentOf(h) ==
    IF "incident_id" \in DOMAIN h._source.metadata
    THEN h._source.metadata.incident_id
    ELSE h._id

C15_ContextIncidentId ==
    \A r \in Runs :
      /\ Len(calls[r]) >= 1 =>
           /\ Len(context[r]) = Len(hits[r])
           /\ Len(matches[r]) = Len(hits[r])
      /\ \A i \in DOMAIN context[r] :
           /\ context[r][i].match = i
           /\ matches[r][i].rank = i
           /\ context[r][i].state = hits[r][i]._source.state_summary
           /\ matches[r][i].state_summary = hits[r][i]._source.state_summary
           /\ matches[r][i].incident_id = IncidentOf(hits[r][i])
           /\ context[r][i].incident = IncidentOf(hits[r][i])
           /\ context[r][i].incident = matches[r][i].incident_id

=============================================================================
